---- MODULE Spec2Model ----
(***************************************************************************)
(* A model of app.py: the force-OCR pipeline (extract_text_pages_force_ocr,*)
(* join_pages, save_text_as_pdf, save_text_as_txt) and the batch worker    *)
(* OCRTextGUI._run_worker with the front-end handlers that start it.       *)
(*                                                                         *)
(* Strings are sequences of one-character strings, so that strip, split,   *)
(* escape, basename, splitext and the format specifiers are computed.      *)
(***************************************************************************)
EXTENDS Integers, Sequences, FiniteSets, TLC

\* ------------------------------------------------------------ bounds
\* Largest page count a document opened by the worker may have.
MaxPages == 3
\* Largest value typed into the "Pages per chunk" entry.
MaxPagesPerChunk == 2
\* Longest text handed to save_text_as_pdf when it is checked on its own.
MaxTextLen == 3
\* Number of worker threads the front-end may have spawned (Start presses).
MaxThreads == 2
\* Largest page count of a document in the front-end specification.
GuiMaxPages == 1

\* ------------------------------------------------------------ characters
NL == "\n"
CR == "\r"
SP == " "
TAB == "\t"

\* What str.strip() removes.
IsSpace(c) == c \in {SP, NL, CR, TAB}

Min(a, b) == IF a < b THEN a ELSE b

RECURSIVE LStrip(_)
LStrip(s) == IF s # <<>> /\ IsSpace(Head(s)) THEN LStrip(Tail(s)) ELSE s

RECURSIVE RStrip(_)
RStrip(s) ==
    IF s # <<>> /\ IsSpace(s[Len(s)]) THEN RStrip(SubSeq(s, 1, Len(s) - 1)) ELSE s

\* str.strip(): leading and trailing whitespace removed.
Strip(s) == RStrip(LStrip(s))

RECURSIVE Digits(_)
\* The decimal digits of n >= 0, most significant first ("{n}").
Digits(n) ==
    LET d == <<"0", "1", "2", "3", "4", "5", "6", "7", "8", "9">>[(n % 10) + 1]
    IN  IF n < 10 THEN <<d>> ELSE Append(Digits(n \div 10), d)

RECURSIVE ZeroFill(_, _)
ZeroFill(s, w) == IF Len(s) >= w THEN s ELSE ZeroFill(<<"0">> \o s, w)

\* Fmt03d with a field width of 2.
Fmt02d(n) == ZeroFill(Digits(n), 2)

\* The format specifier {n:03d}: at least 3 digits, zero-filled on the left.
Fmt03d(n) == ZeroFill(Digits(n), 3)

RECURSIVE LastIndexOf(_, _)
\* The last position of character c in s, 0 when absent (str.rfind + 1).
LastIndexOf(s, c) ==
    IF s = <<>> THEN 0
    ELSE IF s[Len(s)] = c THEN Len(s)
    ELSE LastIndexOf(SubSeq(s, 1, Len(s) - 1), c)

\* os.path.basename: what follows the last separator.
Basename(path) == SubSeq(path, LastIndexOf(path, "/") + 1, Len(path))

RECURSIVE LeadingDots(_)
LeadingDots(s) == IF s # <<>> /\ Head(s) = "." THEN 1 + LeadingDots(Tail(s)) ELSE 0

\* os.path.splitext(name)[0]: the name up to its last dot; leading dots of
\* the name do not start an extension.
SplitextRoot(name) ==
    LET k == LastIndexOf(name, ".")
    IN  IF k > LeadingDots(name) THEN SubSeq(name, 1, k - 1) ELSE name

\* os.path.join(outdir, fname) for a relative fname.
PathJoin(dir, fname) ==
    IF dir = <<>> THEN fname
    ELSE IF dir[Len(dir)] = "/" THEN dir \o fname
    ELSE dir \o <<"/">> \o fname

\* ------------------------------------------------------------ save_text_as_pdf
RECURSIVE ReplaceCRLF(_)
\* text.replace("\r\n", "\n")
ReplaceCRLF(s) ==
    IF s = <<>> THEN <<>>
    ELSE IF Len(s) >= 2 /\ s[1] = CR /\ s[2] = NL
         THEN <<NL>> \o ReplaceCRLF(SubSeq(s, 3, Len(s)))
         ELSE <<Head(s)>> \o ReplaceCRLF(Tail(s))

EscapeChar(c) ==
    CASE c = "&" -> <<"&", "a", "m", "p", ";">>
      [] c = "<" -> <<"&", "l", "t", ";">>
      [] c = ">" -> <<"&", "g", "t", ";">>
      [] OTHER   -> <<c>>

RECURSIVE XmlEscape(_)
\* xml.sax.saxutils.escape
XmlEscape(s) == IF s = <<>> THEN <<>> ELSE EscapeChar(Head(s)) \o XmlEscape(Tail(s))

RECURSIVE SplitFrom(_, _, _)
SplitFrom(s, i, cur) ==
    IF i > Len(s) THEN <<cur>>
    ELSE IF i < Len(s) /\ s[i] = NL /\ s[i + 1] = NL
         THEN <<cur>> \o SplitFrom(s, i + 2, <<>>)
         ELSE SplitFrom(s, i + 1, Append(cur, s[i]))

\* str.split("\n\n"): never an empty list, "" splits to [""].
SplitBlankLine(s) == SplitFrom(s, 1, <<>>)

Placeholder ==
    <<"(", "N", "o", " ", "t", "e", "x", "t", " ",
      "e", "x", "t", "r", "a", "c", "t", "e", "d", ".", ")">>

\* The absent title (title=None).
NoTitle == <<>>

Pre(s) == [kind |-> "XPreformatted", text |-> s]
TheSpacer == [kind |-> "Spacer", text |-> <<>>]

MapStrip(ss) == [k \in 1..Len(ss) |-> Strip(ss[k])]

\* chunks = [c.strip() for c in safe_text.split("\n\n")] or ["(No text extracted.)"]
PdfChunks(text) ==
    LET safe_text == XmlEscape(ReplaceCRLF(text))
        stripped  == MapStrip(SplitBlankLine(safe_text))
    IN  IF stripped = <<>> THEN <<Placeholder>> ELSE stripped

RECURSIVE BodyFlow(_)
\* for c in chunks: if c: flow.append(XPreformatted(c)); flow.append(Spacer)
BodyFlow(chunks) ==
    IF chunks = <<>> THEN <<>>
    ELSE (IF Head(chunks) # <<>> THEN <<Pre(Head(chunks)), TheSpacer>> ELSE <<>>)
         \o BodyFlow(Tail(chunks))

\* The flowables save_text_as_pdf hands to doc.build.
SaveTextAsPdf(text, title) ==
    (IF title # NoTitle THEN <<Pre(XmlEscape(title)), TheSpacer>> ELSE <<>>)
    \o BodyFlow(PdfChunks(text))

\* What save_text_as_txt writes.
SaveTextAsTxt(text) == IF text # <<>> THEN text ELSE Placeholder

\* ------------------------------------------------------------ extraction helpers
\* OcrResult without the strip.
OcrResultUnstripped(raw) == raw

\* _ocr_page_image: (text or "").strip()
OcrResult(raw) == Strip(raw)

\* f"[PAGE {pno}]\n{txt}"
PageText(pno, txt) ==
    <<"[", "P", "A", "G", "E", " ">> \o Digits(pno) \o <<"]", NL>> \o txt

RECURSIVE JoinWith(_, _)
JoinWith(ss, sep) ==
    IF ss = <<>> THEN <<>>
    ELSE IF Len(ss) = 1 THEN ss[1]
    ELSE ss[1] \o sep \o JoinWith(Tail(ss), sep)

\* join_pages: "\n\n".join(pages_text[start_idx:end_idx]).strip()
JoinPages(pages_text, start_idx, end_idx) ==
    Strip(JoinWith(SubSeq(pages_text, start_idx + 1, Min(end_idx, Len(pages_text))),
                   <<NL, NL>>))

\* ------------------------------------------------------------ output names
ExtOf(fmt) == IF fmt = "pdf" THEN <<".", "p", "d", "f">> ELSE <<".", "t", "x", "t">>

\* f"{base}_p{start_page:03d}-{end_page:03d}.pdf" / ".txt"
ChunkFileName(base, start_page, end_page, fmt) ==
    base \o <<"_", "p">> \o Fmt03d(start_page) \o <<"-">> \o Fmt03d(end_page)
         \o ExtOf(fmt)

\* f"{base}_text.pdf" / f"{base}.txt"
SingleFileName(base, fmt) ==
    IF fmt = "pdf" THEN base \o <<"_", "t", "e", "x", "t", ".", "p", "d", "f">>
    ELSE base \o <<".", "t", "x", "t">>

\* EndPage without the clamp to the last page.
EndPageUnclamped(start_page, pages_per_chunk, total_pages) ==
    start_page + pages_per_chunk - 1

\* end_page = min(start_page + pages_per_chunk - 1, total_pages)
EndPage(start_page, pages_per_chunk, total_pages) ==
    Min(start_page + pages_per_chunk - 1, total_pages)

\* ------------------------------------------------------------ inputs
FileA1 == <<"A", "/", "a", ".", "p", "d", "f">>
FileB1 == <<"B", "/", "a", ".", "p", "d", "f">>
FileA2 == <<"A", "/", "b", ".", "c", ".", "p", "d", "f">>
InputFiles == {FileA1, FileB1, FileA2}

\* What askopenfilenames may return: one file, or two distinct files in
\* either order (two of the files share the base name a.pdf).
Selections ==
    {<<f>> : f \in InputFiles}
    \cup {<<p[1], p[2]>> : p \in {q \in InputFiles \X InputFiles : q[1] # q[2]}}

\* The selections of the front-end specification.
GuiSelections == {<<FileA1>>}

\* What pytesseract.image_to_string may return for a page, before the strip.
RawTexts == {<<>>, <<SP, "<", NL>>, <<TAB, "x", SP, "y">>}
\* The one text every page has where the batch, not the text, is looked at.
BatchRawTexts == {<<SP, "<", NL>>}
\* The selections where a single extraction is looked at.
ExtractSelections == {<<FileA2>>}

\* self.var_outdir, stripped (the output folder is not changed during a run).
OutDir == <<"o">>

DefaultPagesPerChunk == 10

Formats == {"txt", "pdf"}

\* ------------------------------------------------------------ state
VARIABLES
    selected_files,       \* self.selected_files
    var_output_format,    \* self.var_output_format
    var_chunk_enable,     \* self.var_chunk_enable
    var_pages_per_chunk,  \* self.var_pages_per_chunk
    wk,                   \* the threads running _run_worker, with their locals
    txt_log,              \* the lines of self.txt_log
    pb,                   \* self.pb: value and maximum
    call_in,              \* the arguments of a writer or naming call made on its own
    call_out              \* its result

vars ==
    <<selected_files, var_output_format, var_chunk_enable, var_pages_per_chunk,
      wk, txt_log, pb, call_in, call_out>>

Threads == 1..MaxThreads

NoErr == [raised_by |-> "none"]

\* Exc with the page index attached to the exception.
ExcWithPage(origin, pno) == [raised_by |-> origin, page |-> pno]

\* The exception objects the libraries raise: none of them has a page attribute.
Exc(origin, pno) == [raised_by |-> origin]

\* A thread that has not been started.
Idle ==
    [pc |-> "idle", files |-> <<>>, idx |-> 0, name |-> <<>>,
     fmt |-> "txt", do_chunk |-> FALSE, pages_per_chunk |-> 0,
     total |-> 0, ocr_raw |-> <<>>, per_page |-> <<>>, total_pages |-> 0,
     base |-> <<>>,
     start_page |-> 0, ranges |-> <<>>, written |-> <<>>,
     err |-> NoErr, handles |-> 0]

NoCall == [fn |-> "none"]

GuiVarsUnchanged ==
    UNCHANGED <<selected_files, var_output_format, var_chunk_enable,
                var_pages_per_chunk>>
CallUnchanged == UNCHANGED <<call_in, call_out>>

Log(entries) == txt_log' = txt_log \o entries

\* ------------------------------------------------------------ _run_worker
\* Lines 243-249: the worker reads the option variables and starts to
\* iterate the list selected_files is bound to at that moment.
Setup(t) ==
    /\ wk[t].pc = "spawned"
    /\ wk' = [wk EXCEPT ![t] =
                [@ EXCEPT !.pc = "loop",
                          !.files = selected_files,
                          !.fmt = var_output_format,
                          !.do_chunk = var_chunk_enable,
                          !.pages_per_chunk = var_pages_per_chunk]]
    /\ UNCHANGED <<txt_log, pb>>
    /\ GuiVarsUnchanged /\ CallUnchanged

\* Lines 249-252: the next file of the batch.
BeginFile(t) ==
    /\ wk[t].pc = "loop"
    /\ wk[t].idx < Len(wk[t].files)
    /\ LET name == Basename(wk[t].files[wk[t].idx + 1])
       IN  /\ wk' = [wk EXCEPT ![t] =
                       [@ EXCEPT !.pc = "open", !.idx = @ + 1, !.name = name,
                                 !.total = 0, !.ocr_raw = <<>>,
                                 !.per_page = <<>>,
                                 !.total_pages = 0, !.base = <<>>,
                                 !.start_page = 0, !.ranges = <<>>,
                                 !.err = NoErr]]
           /\ Log(<<[k |-> "extracting", name |-> name]>>)
    /\ UNCHANGED pb
    /\ GuiVarsUnchanged /\ CallUnchanged

\* Lines 86-88: fitz.open either raises or yields a document of some length.
OpenDoc(t, maxp) ==
    /\ wk[t].pc = "open"
    /\ \/ \E n \in 0..maxp :
            wk' = [wk EXCEPT ![t] =
                     [@ EXCEPT !.pc = "pages", !.total = n, !.handles = @ + 1]]
       \/ wk' = [wk EXCEPT ![t] =
                   [@ EXCEPT !.pc = "except", !.err = Exc("fitz.open", 0)]]
    /\ UNCHANGED <<txt_log, pb>>
    /\ GuiVarsUnchanged /\ CallUnchanged

\* PageFails with the failure swallowed: the page is left empty and the loop
\* goes on.
PageFailsSkipped(t, origin, pno) ==
    wk' = [wk EXCEPT ![t] =
             [@ EXCEPT !.err = [raised_by |-> origin],
                       !.ocr_raw = Append(@, <<>>),
                       !.per_page = Append(@, <<>>)]]

\* The page a failed render or OCR leaves the loop at keeps its document open:
\* the exception's traceback refers to the frame that holds doc.
PageFails(t, origin, pno) ==
    wk' = [wk EXCEPT ![t] = [@ EXCEPT !.pc = "except", !.err = Exc(origin, pno)]]

\* Lines 89-96: one iteration of the page loop.
Page(t, texts) ==
    /\ wk[t].pc = "pages"
    /\ Len(wk[t].per_page) < wk[t].total
    /\ LET pno == Len(wk[t].per_page) + 1
       IN  /\ Log(<<[k |-> "page", pno |-> pno, total |-> wk[t].total]>>)
           /\ \/ PageFails(t, "_render_page", pno)
              \/ PageFails(t, "_ocr_page_image", pno)
              \/ \E raw \in texts :
                    wk' = [wk EXCEPT ![t] =
                             [@ EXCEPT !.ocr_raw = Append(@, raw),
                                       !.per_page =
                                  Append(@, PageText(pno, OcrResult(raw)))]]
    /\ UNCHANGED pb
    /\ GuiVarsUnchanged /\ CallUnchanged

\* Lines 97, 253-257: the extraction returns; doc is never closed by the
\* code, so the handle is released only if the runtime finalises it.
Return(t) ==
    /\ wk[t].pc = "pages"
    /\ Len(wk[t].per_page) = wk[t].total
    /\ \E released \in BOOLEAN :
         wk' = [wk EXCEPT ![t] =
                  [@ EXCEPT !.pc = IF wk[t].do_chunk /\ wk[t].pages_per_chunk > 0
                                   THEN "chunk" ELSE "single",
                            !.total_pages = Len(wk[t].per_page),
                            !.base = SplitextRoot(wk[t].name),
                            !.start_page = 1,
                            !.handles = IF released THEN @ - 1 ELSE @]]
    /\ UNCHANGED <<txt_log, pb>>
    /\ GuiVarsUnchanged /\ CallUnchanged

Artifact(idx, path, fmt, text, title) ==
    [idx |-> idx, path |-> path, fmt |-> fmt,
     content |-> IF fmt = "pdf" THEN SaveTextAsPdf(text, title)
                 ELSE <<SaveTextAsTxt(text)>>]

ChunkTitle(name, s, e) ==
    name \o <<SP, "(", "p", "a", "g", "e", "s", SP>> \o Digits(s) \o <<"-">>
         \o Digits(e) \o <<")">>

\* Lines 261-278: one iteration of the chunk loop.
ChunkStep(t) ==
    /\ wk[t].pc = "chunk"
    /\ wk[t].start_page <= wk[t].total_pages
    /\ LET w == wk[t]
           end_page == EndPage(w.start_page, w.pages_per_chunk, w.total_pages)
           chunk_text == JoinPages(w.per_page, w.start_page - 1, end_page)
           fmt == IF w.fmt = "pdf" THEN "pdf" ELSE "txt"
           out_path ==
               PathJoin(OutDir, ChunkFileName(w.base, w.start_page, end_page, fmt))
           writing == [k |-> "writing", fmt |-> fmt, chunked |-> TRUE,
                       start |-> w.start_page, end |-> end_page]
       IN  \/ /\ wk' = [wk EXCEPT ![t] =
                          [@ EXCEPT !.start_page = end_page + 1,
                                    !.ranges = Append(@, <<w.start_page, end_page>>),
                                    !.written =
                                        Append(@, Artifact(w.idx, out_path, fmt,
                                               chunk_text,
                                               ChunkTitle(w.name, w.start_page,
                                                          end_page)))]]
              /\ Log(<<writing, [k |-> "saved", path |-> out_path]>>)
           \/ /\ wk' = [wk EXCEPT ![t] =
                          [@ EXCEPT !.pc = "except",
                                    !.ranges = Append(@, <<w.start_page, end_page>>),
                                    !.err = Exc("save_text", 0)]]
              /\ Log(<<writing>>)
    /\ UNCHANGED pb
    /\ GuiVarsUnchanged /\ CallUnchanged

\* Line 261: the chunk loop ends.
ChunkDone(t) ==
    /\ wk[t].pc = "chunk"
    /\ wk[t].start_page > wk[t].total_pages
    /\ wk' = [wk EXCEPT ![t] = [@ EXCEPT !.pc = "progress"]]
    /\ UNCHANGED <<txt_log, pb>>
    /\ GuiVarsUnchanged /\ CallUnchanged

\* Lines 280-290: the single output file.
Single(t) ==
    /\ wk[t].pc = "single"
    /\ LET w == wk[t]
           full_text == JoinPages(w.per_page, 0, w.total_pages)
           fmt == IF w.fmt = "pdf" THEN "pdf" ELSE "txt"
           out_path == PathJoin(OutDir, SingleFileName(w.base, fmt))
           writing == [k |-> "writing", fmt |-> fmt, chunked |-> FALSE]
       IN  \/ /\ wk' = [wk EXCEPT ![t] =
                          [@ EXCEPT !.pc = "progress",
                                    !.written =
                                        Append(@, Artifact(w.idx, out_path, fmt,
                                               full_text, w.name))]]
              /\ Log(<<writing, [k |-> "saved", path |-> out_path]>>)
           \/ /\ wk' = [wk EXCEPT ![t] =
                          [@ EXCEPT !.pc = "except", !.err = Exc("save_text", 0)]]
              /\ Log(<<writing>>)
    /\ UNCHANGED pb
    /\ GuiVarsUnchanged /\ CallUnchanged

\* AfterExcept with the batch given up at the first error.
AfterExceptAbort == "done"

\* Where the worker goes once the except clause has logged the error.
AfterExcept == "progress"

\* Lines 292-293: the except clause. When it ends the exception and its
\* traceback are dropped, and with them the last reference to a document
\* the failed extraction had opened.
Except(t) ==
    /\ wk[t].pc = "except"
    /\ \E released \in BOOLEAN :
         wk' = [wk EXCEPT ![t] =
                  [@ EXCEPT !.pc = AfterExcept,
                            !.handles =
                                IF wk[t].err.raised_by \in {"_render_page", "_ocr_page_image"}
                                   /\ released
                                THEN @ - 1 ELSE @]]
    /\ Log(<<[k |-> "error", name |-> wk[t].name, e |-> wk[t].err]>>)
    /\ UNCHANGED pb
    /\ GuiVarsUnchanged /\ CallUnchanged

\* Line 295: the progress bar.
Progress(t) ==
    /\ wk[t].pc = "progress"
    /\ wk' = [wk EXCEPT ![t] = [@ EXCEPT !.pc = "loop"]]
    /\ pb' = [pb EXCEPT !.value = wk[t].idx]
    /\ UNCHANGED txt_log
    /\ GuiVarsUnchanged /\ CallUnchanged

\* Lines 297-299: the batch is over.
Finish(t) ==
    /\ wk[t].pc = "loop"
    /\ wk[t].idx = Len(wk[t].files)
    /\ wk' = [wk EXCEPT ![t] = [@ EXCEPT !.pc = "done"]]
    /\ Log(<<[k |-> "done"]>>)
    /\ UNCHANGED pb
    /\ GuiVarsUnchanged /\ CallUnchanged

\* ------------------------------------------------------------ one batch
\* The state in which start() has spawned one worker: some files are
\* selected, the options hold any values the widgets can give them.
InitWith(selections) ==
    /\ selected_files \in selections
    /\ var_output_format \in Formats
    /\ \/ /\ var_chunk_enable = FALSE
          /\ var_pages_per_chunk = DefaultPagesPerChunk
       \/ /\ var_chunk_enable = TRUE
          /\ var_pages_per_chunk \in 0..MaxPagesPerChunk
    /\ wk = [t \in Threads |-> IF t = 1 THEN [Idle EXCEPT !.pc = "spawned"] ELSE Idle]
    /\ txt_log = <<>>
    /\ pb = [value |-> 0, maximum |-> Len(selected_files)]
    /\ call_in = NoCall
    /\ call_out = NoCall

Init == InitWith(Selections)

Next ==
    \E t \in Threads :
        \/ Setup(t)
        \/ BeginFile(t)
        \/ OpenDoc(t, MaxPages)
        \/ Page(t, BatchRawTexts)
        \/ Return(t)
        \/ ChunkStep(t)
        \/ ChunkDone(t)
        \/ Single(t)
        \/ Except(t)
        \/ Progress(t)
        \/ Finish(t)

Spec == Init /\ [][Next]_vars

\* ------------------------------------------------------------ one extraction
\* A batch of one file, with every OCR text a page may have.
InitExtract == InitWith(ExtractSelections)

NextExtract ==
    \E t \in Threads :
        \/ Setup(t)
        \/ BeginFile(t)
        \/ OpenDoc(t, MaxPages)
        \/ Page(t, RawTexts)
        \/ Return(t)
        \/ ChunkStep(t)
        \/ ChunkDone(t)
        \/ Single(t)
        \/ Except(t)
        \/ Progress(t)
        \/ Finish(t)

SpecExtract == InitExtract /\ [][NextExtract]_vars

\* ------------------------------------------------------------ front-end
WorkerUnchanged == UNCHANGED <<wk, txt_log, pb>>

\* Lines 181-185: the file dialog returned some files.
ChoosePdfs ==
    /\ \E files \in GuiSelections : selected_files' = files
    /\ UNCHANGED <<var_output_format, var_chunk_enable, var_pages_per_chunk>>
    /\ WorkerUnchanged /\ CallUnchanged

\* Lines 187-189.
ClearFiles ==
    /\ selected_files # <<>>
    /\ selected_files' = <<>>
    /\ UNCHANGED <<var_output_format, var_chunk_enable, var_pages_per_chunk>>
    /\ WorkerUnchanged /\ CallUnchanged

\* The thread a press of Start creates: threads are numbered as created.
NewThread(t) == wk[t].pc = "idle" /\ \A u \in Threads : u < t => wk[u].pc # "idle"

\* Lines 215-240: Start. Nothing in it looks at a worker that is running.
Start ==
    /\ selected_files # <<>>
    /\ \E t \in Threads :
          /\ NewThread(t)
          /\ wk' = [wk EXCEPT ![t] = [@ EXCEPT !.pc = "spawned"]]
    /\ pb' = [value |-> 0, maximum |-> Len(selected_files)]
    /\ txt_log' = <<>>
    /\ GuiVarsUnchanged /\ CallUnchanged

\* The state __init__ leaves (lines 114-123), with the option widgets set
\* to any of their values.
InitGui ==
    /\ selected_files = <<>>
    /\ var_output_format \in Formats
    /\ var_chunk_enable \in BOOLEAN
    /\ var_pages_per_chunk = DefaultPagesPerChunk
    /\ wk = [t \in Threads |-> Idle]
    /\ txt_log = <<>>
    /\ pb = [value |-> 0, maximum |-> 100]
    /\ call_in = NoCall
    /\ call_out = NoCall

NextGui ==
    \/ ChoosePdfs
    \/ ClearFiles
    \/ Start
    \/ \E t \in Threads :
        \/ Setup(t)
        \/ BeginFile(t)
        \/ OpenDoc(t, GuiMaxPages)
        \/ Page(t, BatchRawTexts)
        \/ Return(t)
        \/ ChunkStep(t)
        \/ ChunkDone(t)
        \/ Single(t)
        \/ Except(t)
        \/ Progress(t)
        \/ Finish(t)

SpecGui == InitGui /\ [][NextGui]_vars

\* ------------------------------------------------------------ writer and naming calls
Alphabet == {"x", SP, NL, CR, "<"}
TextsUpTo(n) == UNION {[1..k -> Alphabet] : k \in 0..n}
Titles == {NoTitle, <<"t", "&">>}
Bases == {<<"a">>, <<"b", ".", "c">>}
\* Page numbers on both sides of each width of the format specifier.
PageSamples == {1, 9, 10, 99, 100, 999, 1000}

PdfCalls ==
    {[fn |-> "save_text_as_pdf", text |-> x, title |-> ti] :
        x \in TextsUpTo(MaxTextLen), ti \in Titles}
TxtCalls == {[fn |-> "save_text_as_txt", text |-> x] : x \in TextsUpTo(MaxTextLen)}
ChunkNameCalls ==
    {[fn |-> "chunk_name", base |-> b, start_page |-> r[1], end_page |-> r[2],
      fmt |-> f] :
        b \in Bases, f \in Formats,
        r \in {q \in PageSamples \X PageSamples : q[1] <= q[2]}}
SingleNameCalls == {[fn |-> "single_name", base |-> b, fmt |-> f] : b \in Bases, f \in Formats}

CallRest ==
    UNCHANGED <<selected_files, var_output_format, var_chunk_enable,
                var_pages_per_chunk, wk, txt_log, pb, call_in>>

\* Lines 52-74.
CallSaveTextAsPdf ==
    /\ call_in.fn = "save_text_as_pdf" /\ call_out = NoCall
    /\ call_out' = [fn |-> call_in.fn,
                    flow |-> SaveTextAsPdf(call_in.text, call_in.title)]
    /\ CallRest

\* Lines 76-78.
CallSaveTextAsTxt ==
    /\ call_in.fn = "save_text_as_txt" /\ call_out = NoCall
    /\ call_out' = [fn |-> call_in.fn, data |-> SaveTextAsTxt(call_in.text)]
    /\ CallRest

\* Lines 266-272: the file name of a chunk.
CallChunkFileName ==
    /\ call_in.fn = "chunk_name" /\ call_out = NoCall
    /\ call_out' = [fn |-> call_in.fn,
                    fname |-> ChunkFileName(call_in.base, call_in.start_page,
                                            call_in.end_page, call_in.fmt)]
    /\ CallRest

\* Lines 282-287: the file name of a single output.
CallSingleFileName ==
    /\ call_in.fn = "single_name" /\ call_out = NoCall
    /\ call_out' = [fn |-> call_in.fn, fname |-> SingleFileName(call_in.base, call_in.fmt)]
    /\ CallRest

InitCalls ==
    /\ selected_files = <<>>
    /\ var_output_format = "txt"
    /\ var_chunk_enable = FALSE
    /\ var_pages_per_chunk = DefaultPagesPerChunk
    /\ wk = [t \in Threads |-> Idle]
    /\ txt_log = <<>>
    /\ pb = [value |-> 0, maximum |-> 100]
    /\ call_in \in PdfCalls \cup TxtCalls \cup ChunkNameCalls \cup SingleNameCalls
    /\ call_out = NoCall

NextCalls ==
    \/ CallSaveTextAsPdf
    \/ CallSaveTextAsTxt
    \/ CallChunkFileName
    \/ CallSingleFileName

SpecCalls == InitCalls /\ [][NextCalls]_vars

\* ------------------------------------------------------------ properties
Range(s) == {s[k] : k \in 1..Len(s)}
IsExtracting(e) == e.k = "extracting"
PageFailures == {"_render_page", "_ocr_page_image"}
ChunkMode(w) == w.do_chunk /\ w.pages_per_chunk > 0
RangeLen(r) == r[2] - r[1] + 1
Covered(rs) == UNION {rs[k][1]..rs[k][2] : k \in 1..Len(rs)}
\* The number of files begun up to line j of the log.
FileIdxAt(j) == Len(SelectSeq(SubSeq(txt_log, 1, j), IsExtracting))
\* path is some directory, a separator, and name.
IsNameOf(name, path) ==
    /\ "/" \notin Range(name)
    /\ Len(path) > Len(name)
    /\ path[Len(path) - Len(name)] = "/"
    /\ SubSeq(path, Len(path) - Len(name) + 1, Len(path)) = name

\* C1: with chunking enabled and a chunk size > 0, the page ranges the chunk
\* loop produces start at 1, are ascending, non-overlapping and contiguous,
\* each has the chunk size except possibly the last (which then ends at the
\* last page); inside the loop they cover exactly the pages before
\* start_page, and when the loop ends they cover exactly 1..total_pages
\* (nothing for a document of 0 pages).
C1_ChunkRangesPartition ==
    \A t \in Threads :
        LET w == wk[t]
            r == w.ranges
            n == Len(r)
        IN  ChunkMode(w) =>
              /\ (n > 0 => r[1][1] = 1)
              /\ \A k \in 1..n : r[k][1] <= r[k][2] /\ r[k][2] <= w.total_pages
              /\ \A k \in 1..(n - 1) :
                    /\ r[k + 1][1] = r[k][2] + 1
                    /\ RangeLen(r[k]) = w.pages_per_chunk
              /\ n > 0 => /\ RangeLen(r[n]) <= w.pages_per_chunk
                          /\ RangeLen(r[n]) < w.pages_per_chunk
                                => r[n][2] = w.total_pages
              /\ w.pc = "chunk" => Covered(r) = 1..(w.start_page - 1)
              /\ (w.pc = "progress" /\ w.err = NoErr)
                    => Covered(r) = 1..w.total_pages

\* C1 witness: 3 pages in chunks of 2 gave [1,2] and the short chunk [3,3].
C1_Witness ==
    \E t \in Threads :
        /\ wk[t].pc = "progress" /\ wk[t].err = NoErr
        /\ wk[t].total_pages = 3 /\ wk[t].pages_per_chunk = 2
        /\ wk[t].ranges = <<<<1, 2>>, <<3, 3>>>>

\* C2: an exception in one file never ends the batch. The files are begun in
\* the order of the selection, one log line each; the batch is done only
\* when every file was begun; and the except clause logs a line that names
\* the failed file.
C2_BatchSurvivesFailures ==
    LET w == wk[1]
        begun == SelectSeq(txt_log, IsExtracting)
    IN  /\ Len(begun) = w.idx
        /\ w.idx <= Len(w.files)
        /\ \A j \in 1..Len(begun) : IsNameOf(begun[j].name, w.files[j])
        /\ w.pc = "done" => w.idx = Len(w.files)
        /\ (w.pc = "progress" /\ w.err # NoErr) =>
              txt_log[Len(txt_log)] = [k |-> "error", name |-> w.name, e |-> w.err]
        /\ \A j \in 1..Len(txt_log) :
              txt_log[j].k = "error" => txt_log[j].name = begun[FileIdxAt(j)].name

\* C2 witness: the first of two files failed, the second was written, and
\* the batch is done.
C2_Witness ==
    LET w == wk[1]
    IN  /\ w.pc = "done" /\ Len(w.files) = 2
        /\ \E j \in 1..Len(txt_log) :
              /\ txt_log[j].k = "error" /\ FileIdxAt(j) = 1
              /\ IsNameOf(txt_log[j].name, w.files[1])
        /\ \E a \in Range(w.written) : a.idx = 2

\* C3: when the render or the OCR of page p fails, the extraction stops at
\* p (the pages before p are the only ones done, the log line before the
\* error is that of page p and the next one begins another file or ends the
\* batch) and no artifact is written, or attempted, for that document.
C3_PageFailureFailsDocument ==
    LET w == wk[1]
    IN  /\ w.err.raised_by \in PageFailures =>
              /\ w.pc \in {"except", "progress", "loop", "done"}
              /\ Len(w.per_page) < w.total
              /\ w.ranges = <<>>
              /\ \A a \in Range(w.written) : a.idx # w.idx
              /\ w.pc = "except" =>
                    /\ txt_log[Len(txt_log)].k = "page"
                    /\ txt_log[Len(txt_log)].pno = Len(w.per_page) + 1
        /\ \A j \in 1..Len(txt_log) :
              (txt_log[j].k = "error" /\ txt_log[j].e.raised_by \in PageFailures) =>
                  /\ j > 1 /\ txt_log[j - 1].k = "page"
                  /\ j < Len(txt_log) => txt_log[j + 1].k \in {"extracting", "done"}
                  /\ \A a \in Range(w.written) : a.idx # FileIdxAt(j)

\* C3 witness: in chunked mode the OCR of page 2 of 3 failed in the second
\* file; the first file was written, the second was not.
C3_Witness ==
    LET w == wk[1]
    IN  /\ w.pc = "done" /\ w.idx = 2 /\ ChunkMode(w)
        /\ w.err.raised_by = "_ocr_page_image"
        /\ w.total = 3 /\ Len(w.per_page) = 1
        /\ \E a \in Range(w.written) : a.idx = 1

RECURSIVE FirstIndexOf(_, _)
\* The first position of character c in s, 0 when absent.
FirstIndexOf(s, c) ==
    IF s = <<>> THEN 0
    ELSE IF Head(s) = c THEN 1
    ELSE LET k == FirstIndexOf(Tail(s), c) IN IF k = 0 THEN 0 ELSE k + 1

DigitChars == <<"0", "1", "2", "3", "4", "5", "6", "7", "8", "9">>
IsDigit(c) == c \in Range(DigitChars)
DigitVal(c) == (CHOOSE i \in 1..10 : DigitChars[i] = c) - 1

RECURSIVE NumberOf(_)
\* The number a sequence of digits writes.
NumberOf(ds) ==
    IF ds = <<>> THEN 0
    ELSE 10 * NumberOf(SubSeq(ds, 1, Len(ds) - 1)) + DigitVal(ds[Len(ds)])

\* ds writes n in decimal without padding.
IsDecimal(ds, n) ==
    /\ ds # <<>>
    /\ \A k \in 1..Len(ds) : IsDigit(ds[k])
    /\ Len(ds) > 1 => ds[1] # "0"
    /\ NumberOf(ds) = n

\* ds writes n in at least 3 digits, with zeros only to fill up to 3.
IsPadded3(ds, n) ==
    /\ Len(ds) >= 3
    /\ \A k \in 1..Len(ds) : IsDigit(ds[k])
    /\ Len(ds) > 3 => ds[1] # "0"
    /\ NumberOf(ds) = n

\* body is raw without its leading and trailing whitespace.
IsTrimOf(body, raw) ==
    /\ body # <<>> => ~IsSpace(body[1]) /\ ~IsSpace(body[Len(body)])
    /\ \E i \in 0..Len(raw) :
          /\ i + Len(body) <= Len(raw)
          /\ SubSeq(raw, i + 1, i + Len(body)) = body
          /\ \A k \in 1..i : IsSpace(raw[k])
          /\ \A k \in (i + Len(body) + 1)..Len(raw) : IsSpace(raw[k])

\* s is "[PAGE k]", a newline, and the trimmed raw.
IsPageText(s, k, raw) ==
    LET close == FirstIndexOf(s, "]")
    IN  /\ Len(s) >= 9
        /\ SubSeq(s, 1, 6) = <<"[", "P", "A", "G", "E", " ">>
        /\ close > 7
        /\ IsDecimal(SubSeq(s, 7, close - 1), k)
        /\ close < Len(s) /\ s[close + 1] = NL
        /\ IsTrimOf(SubSeq(s, close + 2, Len(s)), raw)

\* The log lines of the file being processed.
CurrentFileLog ==
    LET idxs == {j \in 1..Len(txt_log) : txt_log[j].k = "extracting"}
    IN  IF idxs = {} THEN <<>>
        ELSE SubSeq(txt_log, (CHOOSE j \in idxs : \A i \in idxs : i <= j), Len(txt_log))
IsPageLine(e) == e.k = "page"

\* C5: within one batch no output path is written more than once.
C5_NoPathWrittenTwice ==
    LET w == wk[1]
    IN  \A i, j \in 1..Len(w.written) :
            i # j => w.written[i].path # w.written[j].path

\* C7: a document handle opened by an extraction is released by the time
\* the extraction returns or raises: outside the page loop no handle is open.
C7_HandleReleased ==
    \A t \in Threads : wk[t].pc # "pages" => wk[t].handles = 0

\* C8: the pages are logged, recognised and appended in ascending order, the
\* k-th page text is "[PAGE k]", a newline and the trimmed OCR text of page
\* k (the marker alone when there is no text), and a successful extraction
\* returns exactly one page text per page of the document.
C8_PageTextSequence ==
    LET w == wk[1]
        lines == SelectSeq(CurrentFileLog, IsPageLine)
    IN  /\ Len(w.per_page) = Len(w.ocr_raw)
        /\ \A k \in 1..Len(w.per_page) : IsPageText(w.per_page[k], k, w.ocr_raw[k])
        /\ \A k \in 1..Len(lines) : lines[k].pno = k /\ lines[k].total = w.total
        /\ Len(lines) \in {Len(w.per_page), Len(w.per_page) + 1}
        /\ Len(lines) = Len(w.per_page) + 1 => w.err.raised_by \in PageFailures
        /\ w.pc \in {"chunk", "single"} =>
              /\ Len(w.per_page) = w.total
              /\ w.total_pages = w.total

\* C8 witness: a 3-page document was extracted; page 1 had no text and is
\* the marker alone, pages 2 and 3 had text with whitespace around it.
C8_Witness ==
    LET w == wk[1]
    IN  /\ w.pc = "single" /\ w.total = 3
        /\ w.ocr_raw = <<<<>>, <<SP, "<", NL>>, <<TAB, "x", SP, "y">>>>
        /\ w.per_page[1] = <<"[", "P", "A", "G", "E", " ", "1", "]", NL>>
        /\ w.per_page[2] = <<"[", "P", "A", "G", "E", " ", "2", "]", NL, "<">>
        /\ w.per_page[3] = <<"[", "P", "A", "G", "E", " ", "3", "]", NL, "x", SP, "y">>

C4_SingleWorker ==
    Cardinality({t \in Threads :
                    wk[t].pc \in {"open", "pages", "chunk", "single", "except",
                                  "progress"}}) <= 1

\* C6 as claimed: an unchunked output is <base>.<ext>, a chunked output is
\* <base>_p<start>-<end>.<ext> with 3-digit zero-padded page numbers.
IsChunkName(f, base, s, e, ext) ==
    LET pre == base \o <<"_", "p">>
        mid == SubSeq(f, Len(pre) + 1, Len(f) - Len(ext))
        dash == FirstIndexOf(mid, "-")
    IN  /\ Len(f) >= Len(pre) + Len(ext) + 7
        /\ SubSeq(f, 1, Len(pre)) = pre
        /\ SubSeq(f, Len(f) - Len(ext) + 1, Len(f)) = ext
        /\ dash > 0
        /\ IsPadded3(SubSeq(mid, 1, dash - 1), s)
        /\ IsPadded3(SubSeq(mid, dash + 1, Len(mid)), e)

DotExt(fmt) == IF fmt = "pdf" THEN <<".", "p", "d", "f">> ELSE <<".", "t", "x", "t">>

C6_NamesAsClaimed ==
    /\ call_out.fn = "single_name" =>
          call_out.fname = call_in.base \o DotExt(call_in.fmt)
    /\ call_out.fn = "chunk_name" =>
          IsChunkName(call_out.fname, call_in.base, call_in.start_page,
                      call_in.end_page, DotExt(call_in.fmt))

\* C6 as amended: an unchunked text output is <base>.txt, an unchunked
\* paginated output is <base>_text.pdf, and a chunked output is
\* <base>_p<start>-<end>.<ext>, start and end zero-padded to at least 3
\* digits, <ext> txt or pdf after the format.
C6_NamesAsCoded ==
    /\ (call_out.fn = "single_name" /\ call_in.fmt = "txt") =>
          call_out.fname = call_in.base \o <<".", "t", "x", "t">>
    /\ (call_out.fn = "single_name" /\ call_in.fmt = "pdf") =>
          call_out.fname =
              call_in.base \o <<"_", "t", "e", "x", "t", ".", "p", "d", "f">>
    /\ call_out.fn = "chunk_name" =>
          IsChunkName(call_out.fname, call_in.base, call_in.start_page,
                      call_in.end_page, DotExt(call_in.fmt))

\* C6 witness: the unchunked paginated output of a.pdf is named a_text.pdf.
C6_Witness ==
    /\ call_out.fn = "single_name" /\ call_in.fmt = "pdf"
    /\ call_out.fname = <<"a", "_", "t", "e", "x", "t", ".", "p", "d", "f">>

\* C9: save_text_as_pdf emits, after the title block when a title is given,
\* the single placeholder paragraph when the text is empty, and otherwise
\* the non-empty blank-line-separated blocks of the escaped text, in order,
\* each followed by a spacer.
C9_PdfBlocks ==
    call_out.fn = "save_text_as_pdf" =>
        LET head == IF call_in.title # NoTitle
                    THEN <<Pre(XmlEscape(call_in.title)), TheSpacer>> ELSE <<>>
            body == SubSeq(call_out.flow, Len(head) + 1, Len(call_out.flow))
            blocks == MapStrip(SplitBlankLine(XmlEscape(ReplaceCRLF(call_in.text))))
        IN  /\ SubSeq(call_out.flow, 1, Len(head)) = head
            /\ call_in.text = <<>> => body = <<Pre(Placeholder), TheSpacer>>
            /\ call_in.text # <<>> => body = BodyFlow(blocks)

====
